---- MODULE Spec2Model ----
(***************************************************************************)
(* A model of the native class surface (boa/src/class.rs), of the Return,  *)
(* Throw, Identifier and Spread evaluation rules (boa/src/exec) and of     *)
(* the forward_val entry point (boa/src/lib.rs).                           *)
(***************************************************************************)
EXTENDS Integers, Sequences, FiniteSets, TLC

VARIABLES
    class,      \* the host type T being registered: [NAME, LENGTH]
    heap,       \* the garbage collected heap: a sequence of Objects, GcObject = index
    builder,    \* the ClassBuilder: [object, prototype] (GcObject handles)
    phase,      \* "start" | "init" (T::init is running) | "built"
    built,      \* what ClassBuilder::build returned
    opsDone,    \* builder operations T::init has made so far
    instances,  \* the objects created as `this` for the constructor
    last,       \* the operation that ran last, with its arguments
    prev,       \* the operation that ran before it
    prevView,   \* the two registration objects as they were after prev
    env,        \* realm.environment: the chain of frames, innermost first
    state,      \* executor.current_state: the InterpreterState
    result,     \* the Result<Value> of the node or entry point that ran last
    lastRun     \* the node or source that ran last

classVars == <<class, heap, builder, phase, built, opsDone, instances, last, prev, prevView>>
execVars == <<env, state, result, lastRun>>
vars == <<class, heap, builder, phase, built, opsDone, instances, last, prev, prevView,
          env, state, result, lastRun>>

-----------------------------------------------------------------------------
(* Bounds *)

MaxOps == 2
MaxInstances == 2
MaxFrames == 2
MaxDepth == 1

-----------------------------------------------------------------------------
(* Values *)

Undefined == [t |-> "undefined", x |-> 0, s |-> ""]
Null == [t |-> "null", x |-> 0, s |-> ""]
Integer(n) == [t |-> "integer", x |-> n, s |-> ""]
Str(str) == [t |-> "string", x |-> 0, s |-> str]
Obj(id) == [t |-> "object", x |-> id, s |-> ""]
\* a host value of the registered type T (the payload of a NativeObject)
HostValue(n) == [t |-> "host", x |-> n, s |-> ""]

\* Result<T> = StdResult<T, Value>
Ok(v) == [k |-> "Ok", v |-> v]
Err(v) == [k |-> "Err", v |-> v]

-----------------------------------------------------------------------------
(* Attribute, Property, Object *)

READONLY == "READONLY"
NON_ENUMERABLE == "NON_ENUMERABLE"
PERMANENT == "PERMANENT"
WRITABLE == "WRITABLE"
ENUMERABLE == "ENUMERABLE"
CONFIGURABLE == "CONFIGURABLE"

\* Attribute::default(), as the comments at class.rs:192 and 209 give it
Attribute_default == {READONLY, NON_ENUMERABLE, PERMANENT}

\* attribute | other on the Attribute bitset
Attribute_or(a, b) == a \cup b

NoProperty == [present |-> FALSE, value |-> Undefined, attribute |-> {}]

Property_data_descriptor(value, attribute) ==
    [present |-> TRUE, value |-> value, attribute |-> attribute]

Keys == {"length", "name", "prototype", "constructor", "m"}

CALLABLE == "CALLABLE"
CONSTRUCTABLE == "CONSTRUCTABLE"

Ordinary == [k |-> "Ordinary", fn |-> "", flags |-> {}, payload |-> Undefined]
Function_BuiltIn(fn, flags) == [k |-> "Function", fn |-> fn, flags |-> flags, payload |-> Undefined]
NativeObject(p) == [k |-> "NativeObject", fn |-> "", flags |-> {}, payload |-> p]

\* Object::create(proto): an ordinary object with no own property
Object_create(proto) ==
    [data |-> Ordinary, properties |-> [key \in Keys |-> NoProperty], prototype |-> proto]

\* Object::function(function, proto)
Object_function(function, proto) ==
    [data |-> function, properties |-> [key \in Keys |-> NoProperty], prototype |-> proto]

\* Object::insert_property: the property map takes the entry, replacing the key's old one
insert_property(object, key, property) ==
    [object EXCEPT !.properties[key] = property]

\* Object::insert_field: a data property holding the value, with the default flags
insert_field(object, key, value) ==
    insert_property(object, key, Property_data_descriptor(value, Attribute_default))

\* Value::set_data: the object's internal-data slot is replaced
set_data(h, this, data) ==
    IF this.t = "object" THEN [h EXCEPT ![this.x].data = data] ELSE h

\* the intrinsics global.Object.prototype and global.Function.prototype
ObjectPrototype == 1
FunctionPrototype == 2

InitialHeap == <<Object_create(Null), Object_create(Obj(ObjectPrototype))>>

-----------------------------------------------------------------------------
(* The native class surface: class.rs *)

\* faulty variant: the constructor function flagged callable as well
ConstructorFlags_both == {CALLABLE, CONSTRUCTABLE}

\* FunctionFlags of the class constructor's BuiltIn function
ConstructorFlags == {CONSTRUCTABLE}

\* faulty variant: the internal data is stored before the constructor's outcome is looked at
raw_constructor_eager(h, this, outcome) ==
    [heap |-> set_data(h, this, NativeObject(outcome.v)),
     ret |-> IF outcome.k = "Err" THEN Err(outcome.v) ELSE Ok(this)]

\* impl<T: Class> ClassConstructor for T: outcome is what T::constructor returned,
\* Ok(payload) or Err(thrown value); the `?` returns the Err before set_data runs
raw_constructor(h, this, outcome) ==
    IF outcome.k = "Err"
    THEN [heap |-> h, ret |-> Err(outcome.v)]
    ELSE [heap |-> set_data(h, this, NativeObject(outcome.v)), ret |-> Ok(this)]

\* ClassBuilder::new::<T>
ClassBuilder_new(h, T) ==
    LET prototype == Len(h) + 1
        object == Len(h) + 2
        proto0 == Object_create(Obj(ObjectPrototype))
        function == Function_BuiltIn("raw_constructor", ConstructorFlags)
        ctor0 == Object_function(function, Obj(FunctionPrototype))
        ctor1 == insert_property(ctor0, "length",
                     Property_data_descriptor(Integer(T.LENGTH), {READONLY, NON_ENUMERABLE, PERMANENT}))
        ctor2 == insert_property(ctor1, "name",
                     Property_data_descriptor(Str(T.NAME), {READONLY, NON_ENUMERABLE, PERMANENT}))
        proto1 == insert_field(proto0, "constructor", Obj(object))
        ctor3 == insert_field(ctor2, "prototype", Obj(prototype))
    IN  [heap |-> h \o <<proto1, ctor3>>, object |-> object, prototype |-> prototype]

\* faulty variant: the handle of the prototype object is handed out
build_prototype(b) == b.prototype

\* ClassBuilder::build
build(b) == b.object

\* the function object method and static_method create
MethodFunction(name, length, function) ==
    LET f0 == Object_function(Function_BuiltIn(function, {CALLABLE}), Obj(FunctionPrototype))
        f1 == insert_field(f0, "length", Integer(length))
    IN  insert_field(f1, "name", Str(name))

\* ClassBuilder::method: the function object goes on the heap and under `name`
\* on the prototype
method(h, b, name, length, function) ==
    LET h1 == Append(h, MethodFunction(name, length, function))
    IN  [h1 EXCEPT ![b.prototype] = insert_field(@, name, Obj(Len(h1)))]

\* ClassBuilder::static_method: as method, on the class object itself
static_method(h, b, name, length, function) ==
    LET h1 == Append(h, MethodFunction(name, length, function))
    IN  [h1 EXCEPT ![b.object] = insert_field(@, name, Obj(Len(h1)))]

\* faulty variant: the caller's flags are taken as they are, without the default
property_bare(h, b, key, value, attribute) ==
    [h EXCEPT ![b.prototype] =
        insert_property(@, key, Property_data_descriptor(value, attribute))]

\* ClassBuilder::property
property(h, b, key, value, attribute) ==
    [h EXCEPT ![b.prototype] =
        insert_property(@, key,
            Property_data_descriptor(value, Attribute_or(attribute, Attribute_default)))]

\* faulty variant: the flags of a property the key already has are toggled into the new ones
static_property_toggle(h, b, key, value, attribute) ==
    LET old == h[b.object].properties[key].attribute
        new == Attribute_or(attribute, Attribute_default)
    IN  [h EXCEPT ![b.object] =
            insert_property(@, key,
                Property_data_descriptor(value, (old \ new) \cup (new \ old)))]

\* ClassBuilder::static_property
static_property(h, b, key, value, attribute) ==
    [h EXCEPT ![b.object] =
        insert_property(@, key,
            Property_data_descriptor(value, Attribute_or(attribute, Attribute_default)))]

-----------------------------------------------------------------------------
(* Registration, as Context::register_class drives it *)

OpKeys == {"name", "length", "m"}
OpLengths == {1}
OpFunctions == {"f"}
OpValues == {Integer(7), Str("v")}
OpAttributes == {{}, {WRITABLE, ENUMERABLE}}
HostOutcomes == {Ok(HostValue(1)), Ok(HostValue(2)), Err(Str("e1")), Err(Integer(3))}

\* the host types: T::NAME, and T::LENGTH at its default 0 or overridden
Classes == {[NAME |-> "Person", LENGTH |-> n] : n \in {0, 2}}

NoOp ==
    [op |-> "none", key |-> "", value |-> Undefined, length |-> 0, fn |-> "",
     attribute |-> {}, this |-> Undefined, outcome |-> Ok(Undefined), ret |-> Ok(Undefined),
     pre |-> Ordinary]

\* a property as an observer of the class sees it: a function object that method or
\* static_method created shows by its structure, not by which heap cell holds it
PropertyView(h, b, p) ==
    IF p.present /\ p.value.t = "object" /\ p.value.x \notin {b.object, b.prototype}
    THEN [present |-> TRUE, attribute |-> p.attribute, value |-> Obj(0), target |-> h[p.value.x]]
    ELSE [present |-> p.present, attribute |-> p.attribute, value |-> p.value,
          target |-> Object_create(Null)]

View(h, b) ==
    [o \in {"object", "prototype"} |->
        [key \in Keys |-> PropertyView(h, b, h[b[o]].properties[key])]]

NoView ==
    [o \in {"object", "prototype"} |->
        [key \in Keys |-> [present |-> FALSE, attribute |-> {}, value |-> Undefined,
                           target |-> Object_create(Null)]]]

InitClassPart ==
    /\ class \in Classes
    /\ heap = InitialHeap
    /\ builder = [object |-> 0, prototype |-> 0]
    /\ phase = "start"
    /\ built = 0
    /\ opsDone = 0
    /\ instances = {}
    /\ last = NoOp
    /\ prev = NoOp
    /\ prevView = NoView

\* register_class: ClassBuilder::new::<T>(context), then T::init(&mut builder)
RegisterNew ==
    /\ phase = "start"
    /\ LET r == ClassBuilder_new(heap, class)
       IN  /\ heap' = r.heap
           /\ builder' = [object |-> r.object, prototype |-> r.prototype]
    /\ phase' = "init"
    /\ last' = [NoOp EXCEPT !.op = "new"]
    /\ UNCHANGED <<class, built, opsDone, instances, prev, prevView>>
    /\ UNCHANGED execVars

\* what every builder operation made by T::init leaves behind
Record(op, h) ==
    /\ heap' = h
    /\ opsDone' = opsDone + 1
    /\ last' = op
    /\ prev' = last
    /\ prevView' = View(heap, builder)
    /\ UNCHANGED <<class, builder, phase, built, instances>>
    /\ UNCHANGED execVars

Method ==
    /\ phase = "init"
    /\ opsDone < MaxOps
    /\ \E name \in OpKeys, length \in OpLengths, function \in OpFunctions :
            Record([NoOp EXCEPT !.op = "method", !.key = name, !.length = length, !.fn = function],
                   method(heap, builder, name, length, function))

StaticMethod ==
    /\ phase = "init"
    /\ opsDone < MaxOps
    /\ \E name \in OpKeys, length \in OpLengths, function \in OpFunctions :
            Record([NoOp EXCEPT !.op = "static_method", !.key = name, !.length = length,
                                !.fn = function],
                   static_method(heap, builder, name, length, function))

PropertyOp ==
    /\ phase = "init"
    /\ opsDone < MaxOps
    /\ \E key \in OpKeys, value \in OpValues, attribute \in OpAttributes :
            Record([NoOp EXCEPT !.op = "property", !.key = key, !.value = value,
                                !.attribute = attribute],
                   property(heap, builder, key, value, attribute))

StaticPropertyOp ==
    /\ phase = "init"
    /\ opsDone < MaxOps
    /\ \E key \in OpKeys, value \in OpValues, attribute \in OpAttributes :
            Record([NoOp EXCEPT !.op = "static_property", !.key = key, !.value = value,
                                !.attribute = attribute],
                   static_property(heap, builder, key, value, attribute))

\* register_class: let class = builder.build()
Build ==
    /\ phase = "init"
    /\ built' = build(builder)
    /\ phase' = "built"
    /\ last' = [NoOp EXCEPT !.op = "build"]
    /\ prev' = last
    /\ prevView' = View(heap, builder)
    /\ UNCHANGED <<class, heap, builder, opsDone, instances>>
    /\ UNCHANGED execVars

\* `new`: a freshly constructed object whose prototype is the constructor's
\* `prototype` property becomes `this`
NewInstance ==
    /\ phase = "built"
    /\ Cardinality(instances) < MaxInstances
    /\ heap' = Append(heap, Object_create(heap[built].properties["prototype"].value))
    /\ instances' = instances \cup {Len(heap) + 1}
    /\ last' = [NoOp EXCEPT !.op = "new_instance", !.this = Obj(Len(heap) + 1)]
    /\ UNCHANGED <<class, builder, phase, built, opsDone, prev, prevView>>
    /\ UNCHANGED execVars

\* the engine calls the BuiltIn function of the class object: T::raw_constructor
RawConstructorCall ==
    /\ phase = "built"
    /\ \E i \in instances, outcome \in HostOutcomes :
          LET r == raw_constructor(heap, Obj(i), outcome)
          IN  /\ heap' = r.heap
              /\ last' = [NoOp EXCEPT !.op = "raw_constructor", !.this = Obj(i),
                                      !.outcome = outcome, !.ret = r.ret,
                                      !.pre = heap[i].data]
    /\ UNCHANGED <<class, builder, phase, built, opsDone, instances, prev, prevView>>
    /\ UNCHANGED execVars

-----------------------------------------------------------------------------
(* The executor: exec/return_smt, exec/throw, exec/identifier, exec/spread *)

InterpreterState == {"Normal", "Return", "Break", "Continue", "Throw"}

Names == {"x", "y"}
\* the names some frame may declare; "y" is declared nowhere
BoundNames == {"x"}
BindingValues == {Integer(1), Integer(2)}

\* a binding slot of an environment record
NoBinding == [bound |-> FALSE, initialized |-> FALSE, value |-> Undefined]
Slots ==
    {NoBinding}
        \cup {[bound |-> TRUE, initialized |-> FALSE, value |-> Undefined]}
        \cup {[bound |-> TRUE, initialized |-> TRUE, value |-> v] : v \in BindingValues}

Frames == {f \in [Names -> Slots] : \A n \in Names \ BoundNames : f[n] = NoBinding}

Environments == UNION {[1..n -> Frames] : n \in 1..MaxFrames}

None == [some |-> FALSE, v |-> Undefined]
Some(v) == [some |-> TRUE, v |-> v]

\* LexicalEnvironment::get_binding_value: the innermost frame with a binding for the
\* name decides; a binding that is not initialized has no value
RECURSIVE get_binding_value(_, _)
get_binding_value(e, name) ==
    IF e = <<>> THEN None
    ELSE IF Head(e)[name].bound
         THEN IF Head(e)[name].initialized THEN Some(Head(e)[name].value) ELSE None
         ELSE get_binding_value(Tail(e), name)

\* Context::construct_reference_error(name)
construct_reference_error(name) == [t |-> "ReferenceError", x |-> 0, s |-> name]

\* AST nodes. "Other" stands for any node kind whose rule is not given here: it
\* carries the completion its evaluation yields and the state it leaves.
OtherNode(res, st) == [kind |-> "Other", name |-> "", res |-> res, st |-> st, sub |-> <<>>]
IdentifierNode(name) ==
    [kind |-> "Identifier", name |-> name, res |-> Ok(Undefined), st |-> "Normal", sub |-> <<>>]
Wrap(kind, sub) ==
    [kind |-> kind, name |-> "", res |-> Ok(Undefined), st |-> "Normal", sub |-> sub]

OtherCompletions == {Ok(Integer(1)), Err(Integer(2))}
\* the states an evaluation of such a node is taken to leave
OtherStates == {"Normal", "Break", "Throw"}

Leaves ==
    {OtherNode(res, st) : res \in OtherCompletions, st \in OtherStates}
        \cup {IdentifierNode(n) : n \in Names}

RECURSIVE NodesOfDepth(_)
NodesOfDepth(d) ==
    IF d = 0 THEN Leaves \cup {Wrap("Return", <<>>)}
    ELSE LET below == NodesOfDepth(d - 1)
         IN  below \cup {Wrap(kind, <<n>>) : kind \in {"Return", "Throw", "Spread"}, n \in below}

Nodes == NodesOfDepth(MaxDepth)

RECURSIVE Run(_, _)

\* faulty variant: a name without a binding value reads as undefined
Identifier_run_undefined(node, ctx) ==
    LET b == get_binding_value(ctx.env, node.name)
    IN  [result |-> IF b.some THEN Ok(b.v) ELSE Ok(Undefined), state |-> ctx.state]

\* impl Executable for Identifier
Identifier_run(node, ctx) ==
    LET b == get_binding_value(ctx.env, node.name)
    IN  [result |-> IF b.some THEN Ok(b.v) ELSE Err(construct_reference_error(node.name)),
         state |-> ctx.state]

\* faulty variant: the operand's Err is propagated with `?` before the state is set
Return_run_early(node, ctx) ==
    LET r == IF node.sub # <<>>
             THEN Run(node.sub[1], ctx)
             ELSE [result |-> Ok(Undefined), state |-> ctx.state]
    IN  IF r.result.k = "Err" THEN r ELSE [result |-> r.result, state |-> "Return"]

\* impl Executable for Return: the operand's Result is kept, not propagated with `?`,
\* so set_current_state(Return) runs whatever the operand yielded
Return_run(node, ctx) ==
    LET r == IF node.sub # <<>>
             THEN Run(node.sub[1], ctx)
             ELSE [result |-> Ok(Undefined), state |-> ctx.state]
    IN  [result |-> r.result, state |-> "Return"]

\* faulty variant: the operand's value is handed back as a normal value
Throw_run_ok(node, ctx) == Run(node.sub[1], ctx)

\* impl Executable for Throw: Err(self.expr().run(interpreter)?)
Throw_run(node, ctx) ==
    LET r == Run(node.sub[1], ctx)
    IN  IF r.result.k = "Err" THEN r ELSE [result |-> Err(r.result.v), state |-> r.state]

\* impl Executable for Spread
Spread_run(node, ctx) == Run(node.sub[1], ctx)

\* Executable::run, dispatched on the node kind
Run(node, ctx) ==
    CASE node.kind = "Identifier" -> Identifier_run(node, ctx)
      [] node.kind = "Return" -> Return_run(node, ctx)
      [] node.kind = "Throw" -> Throw_run(node, ctx)
      [] node.kind = "Spread" -> Spread_run(node, ctx)
      [] OTHER -> [result |-> node.res, state |-> node.st]

-----------------------------------------------------------------------------
(* The entry point: lib.rs *)

\* a source text, by what Parser::parse_all makes of it
Sources ==
    {[ok |-> TRUE, list |-> <<n>>, msg |-> ""] : n \in NodesOfDepth(0)}
        \cup {[ok |-> TRUE, list |-> <<>>, msg |-> ""]}
        \cup {[ok |-> FALSE, list |-> <<>>, msg |-> "parse error"]}

\* parser_expr: Parser::new(src).parse_all().map_err(|e| e.to_string())
parser_expr(src) ==
    IF src.ok THEN [k |-> "Ok", list |-> src.list, e |-> ""]
    ELSE [k |-> "Err", list |-> <<>>, e |-> src.msg]

\* impl Executable for StatementList, for the lists of at most one statement used here
StatementList_run(list, ctx) ==
    IF list = <<>> THEN [result |-> Ok(Undefined), state |-> ctx.state]
    ELSE Run(list[1], ctx)

\* the process aborted: panic!()
Panic == [k |-> "Panic", v |-> Undefined]

\* forward_val
forward_val(ctx, src) ==
    LET p == parser_expr(src)
    IN  IF p.k = "Ok" THEN StatementList_run(p.list, ctx)
        ELSE [result |-> Panic, state |-> ctx.state]

NoResult == [k |-> "none", v |-> Undefined]
NoRun == [op |-> "none", node |-> Wrap("Return", <<>>),
          src |-> [ok |-> TRUE, list |-> <<>>, msg |-> ""]]

Ctx == [state |-> state, env |-> env]

InitExecPart ==
    /\ env \in Environments
    /\ state \in InterpreterState
    /\ result = NoResult
    /\ lastRun = NoRun

\* the executor runs one node; nothing runs once the process has aborted
RunNode(kind) ==
    /\ \E n \in Nodes :
          /\ n.kind = kind
          /\ LET r == Run(n, Ctx)
             IN  /\ result' = r.result
                 /\ state' = r.state
          /\ lastRun' = [NoRun EXCEPT !.op = "run", !.node = n]
    /\ UNCHANGED env
    /\ UNCHANGED classVars

RunReturn ==
    /\ result.k # "Panic"
    /\ RunNode("Return")

RunThrow ==
    /\ result.k # "Panic"
    /\ RunNode("Throw")

RunIdentifier ==
    /\ result.k # "Panic"
    /\ RunNode("Identifier")

RunSpread ==
    /\ result.k # "Panic"
    /\ RunNode("Spread")


ForwardVal ==
    /\ result.k # "Panic"
    /\ \E src \in Sources :
          /\ LET r == forward_val(Ctx, src)
             IN  /\ result' = r.result
                 /\ state' = r.state
          /\ lastRun' = [NoRun EXCEPT !.op = "forward_val", !.src = src]
    /\ UNCHANGED env
    /\ UNCHANGED classVars

-----------------------------------------------------------------------------
(* Specifications *)

\* the default values of the part a specification leaves alone
IdleClassPart ==
    /\ class = [NAME |-> "Person", LENGTH |-> 2]
    /\ heap = InitialHeap
    /\ builder = [object |-> 0, prototype |-> 0]
    /\ phase = "start"
    /\ built = 0
    /\ opsDone = 0
    /\ instances = {}
    /\ last = NoOp
    /\ prev = NoOp
    /\ prevView = NoView

IdleExecPart ==
    /\ env = <<>>
    /\ state = "Normal"
    /\ result = NoResult
    /\ lastRun = NoRun

InitClass == InitClassPart /\ IdleExecPart

\* registration: ClassBuilder::new, the operations of T::init, build
NextClass ==
    \/ RegisterNew
    \/ Method
    \/ StaticMethod
    \/ PropertyOp
    \/ StaticPropertyOp
    \/ Build

SpecClass == InitClass /\ [][NextClass]_vars

\* construction: a class whose init made no builder operation has been registered,
\* and script code constructs instances of it
InitCtor ==
    /\ class \in Classes
    /\ LET r == ClassBuilder_new(InitialHeap, class)
       IN  /\ heap = r.heap
           /\ builder = [object |-> r.object, prototype |-> r.prototype]
           /\ built = build([object |-> r.object, prototype |-> r.prototype])
    /\ phase = "built"
    /\ opsDone = 0
    /\ instances = {}
    /\ last = NoOp
    /\ prev = NoOp
    /\ prevView = NoView
    /\ IdleExecPart

NextCtor ==
    \/ NewInstance
    \/ RawConstructorCall

SpecCtor == InitCtor /\ [][NextCtor]_vars

InitExec == IdleClassPart /\ InitExecPart

NextExec ==
    \/ RunReturn
    \/ RunThrow
    \/ RunIdentifier
    \/ RunSpread
    \/ ForwardVal

SpecExec == InitExec /\ [][NextExec]_vars

Init == InitClass
Next == NextClass
Spec == SpecClass

-----------------------------------------------------------------------------
(* Properties *)

Registered == phase \in {"init", "built"}
BuilderOps == {"method", "static_method", "property", "static_property"}
TheObject == heap[builder.object]
ThePrototype == heap[builder.prototype]

IsDefaultFlagged(p) ==
    /\ p.present
    /\ {READONLY, NON_ENUMERABLE, PERMANENT} \subseteq p.attribute
    /\ p.attribute \cap {WRITABLE, ENUMERABLE, CONFIGURABLE} = {}

\* C1: after raw_constructor(this, args, ctx), if T::constructor returned a payload p
\* then the internal data of `this` is NativeObject(p) and the call returned that
\* same `this`; if T::constructor threw v then the call returned Err(v) and the
\* internal data of `this` is what it was before the call.
C1_RawConstructor ==
    last.op = "raw_constructor" =>
        /\ last.outcome.k = "Ok" =>
              /\ heap[last.this.x].data.k = "NativeObject"
              /\ heap[last.this.x].data.payload = last.outcome.v
              /\ last.ret.k = "Ok"
              /\ last.ret.v = last.this
        /\ last.outcome.k = "Err" =>
              /\ last.ret.k = "Err"
              /\ last.ret.v = last.outcome.v
              /\ heap[last.this.x].data = last.pre

\* a failed construction of an instance that already holds a payload
C1_Witness ==
    /\ last.op = "raw_constructor"
    /\ last.outcome = Err(Str("e1"))
    /\ last.ret = Err(Str("e1"))
    /\ last.pre.k = "NativeObject"
    /\ heap[last.this.x].data = last.pre

\* C2 (as claimed): the constructor function object that registration creates is
\* flagged both Callable and Constructable.
C2_CallableAndConstructable ==
    Registered =>
        /\ TheObject.data.k = "Function"
        /\ {CALLABLE, CONSTRUCTABLE} \subseteq TheObject.data.flags

\* C2 (amended): the constructor function object that registration creates has internal
\* data Function(BuiltIn(raw_constructor, flags)) with flags = Constructable alone: it is
\* valid for Construct and not for Call, and no builder operation changes that.
C2_ConstructableOnly ==
    Registered =>
        /\ TheObject.data.k = "Function"
        /\ TheObject.data.fn = "raw_constructor"
        /\ CONSTRUCTABLE \in TheObject.data.flags
        /\ CALLABLE \notin TheObject.data.flags

C2_Witness ==
    /\ phase = "built"
    /\ opsDone > 0
    /\ heap[built].data.k = "Function"
    /\ heap[built].data.flags = {CONSTRUCTABLE}

\* C3: the constructor object keeps own data properties name = T::NAME and
\* length = T::LENGTH, read-only, non-enumerable and non-configurable, whatever
\* builder operations T::init makes.
C3_NameLengthKept ==
    Registered =>
        /\ TheObject.properties["name"].value = Str(class.NAME)
        /\ IsDefaultFlagged(TheObject.properties["name"])
        /\ TheObject.properties["length"].value = Integer(class.LENGTH)
        /\ IsDefaultFlagged(TheObject.properties["length"])

\* C4: in the state ClassBuilder::new produces, the prototype object's own
\* `constructor` is the constructor object, the constructor object's own `prototype`
\* is the prototype object, the prototype object's prototype link is Object.prototype,
\* the constructor's is Function.prototype; and build returns the constructor object.
C4_Linked ==
    /\ (Registered /\ opsDone = 0) =>
          /\ builder.object # builder.prototype
          /\ ThePrototype.properties["constructor"].present
          /\ ThePrototype.properties["constructor"].value = Obj(builder.object)
          /\ TheObject.properties["prototype"].present
          /\ TheObject.properties["prototype"].value = Obj(builder.prototype)
          /\ ThePrototype.prototype = Obj(ObjectPrototype)
          /\ TheObject.prototype = Obj(FunctionPrototype)
          /\ TheObject.data.k = "Function"
          /\ ThePrototype.data.k = "Ordinary"
    /\ phase = "built" => built = builder.object

C4_Witness ==
    /\ phase = "built"
    /\ opsDone = 0
    /\ heap[built].properties["prototype"].value = Obj(builder.prototype)
    /\ ThePrototype.properties["constructor"].value = Obj(built)

\* C5: a builder operation applied a second time in a row with the same arguments
\* leaves the prototype object and the constructor object with the same own keys,
\* values (a created function object taken by its structure) and attributes as the
\* first application left them.
C5_Idempotent ==
    (last.op \in BuilderOps /\ last = prev) => View(heap, builder) = prevView

C5_Witness ==
    /\ last.op = "static_method"
    /\ last = prev
    /\ last.key = "m"
    /\ TheObject.properties["m"].value = Obj(Len(heap))
    /\ View(heap, builder) = prevView

RanNode(kind) == lastRun.op = "run" /\ lastRun.node.kind = kind
Operand == lastRun.node.sub[1]

\* C7: after a Return node ran the interpreter state is Return; without an operand
\* the result is the normal value undefined, with an operand the result is the
\* operand's own evaluation result, a thrown value included.
C7_Return ==
    RanNode("Return") =>
        /\ state = "Return"
        /\ lastRun.node.sub = <<>> => result = Ok(Undefined)
        /\ lastRun.node.sub # <<>> =>
              /\ result = Run(Operand, Ctx).result
              /\ Operand.kind = "Other" => result = Operand.res

\* a return whose operand threw and left the state Break
C7_Witness ==
    /\ RanNode("Return")
    /\ lastRun.node.sub = <<OtherNode(Err(Integer(2)), "Break")>>
    /\ result = Err(Integer(2))
    /\ state = "Return"

\* C8: after a Throw node ran the result is a thrown value, never a normal one: the
\* operand's value v as Err(v), or the value w the operand's evaluation threw.
C8_Throw ==
    RanNode("Throw") =>
        /\ result.k = "Err"
        /\ result.v = Run(Operand, Ctx).result.v
        /\ Operand.kind = "Other" => result.v = Operand.res.v

C8_Witness ==
    /\ RanNode("Throw")
    /\ Operand.kind = "Other"
    /\ Operand.res = Ok(Integer(1))
    /\ result = Err(Integer(1))

\* the frames of the chain that hold a value for the name
Holders(name) ==
    {i \in DOMAIN env : env[i][name].bound /\ env[i][name].initialized}
\* the frames of the chain that declare the name
Declarers(name) == {i \in DOMAIN env : env[i][name].bound}
Innermost(S) == CHOOSE i \in S : \A j \in S : i <= j

C10_ParseErrorReturned ==
    (lastRun.op = "forward_val" /\ ~lastRun.src.ok) => result.k = "Err"

====
